---- MODULE Spec2Model ----
(***************************************************************************)
(* Model of generate_priority_pass_map_v2.py: the URL canonicalizer, the   *)
(* detail-URL classifier, the link repairer, the page extractor's merge,   *)
(* the validation / recheck ladder and the aggregation pipeline.           *)
(*                                                                         *)
(* Strings are sequences of tokens.  A token is either one of the URL      *)
(* delimiters "/", "?", "#", a scheme with its colon ("https:"), or a      *)
(* word (a run of characters holding no delimiter).  The empty string is   *)
(* <<>> and Python's None is the one-token sequence NoneVal.               *)
(***************************************************************************)
EXTENDS Integers, Sequences, FiniteSets, TLC

VARIABLES
    shape,      \* URL functions: the input as it was put together
    raw,        \* URL functions: the input string handed to the function
    call,       \* URL functions: the last call, its arguments and its result
    page,       \* page extractor: the airport page handed to parse_airport_page
    page_result, \* page extractor: what parse_airport_page returned
    pc,                 \* run_pipeline: the step the run is at
    world_airports_df,  \* the reference airports
    airport_links,      \* the airport pages of the index
    pending,            \* the tasks of the current pool that have not run
    task,               \* the task of the current pool that is running
    airport_summaries,  \* one summary per collected airport-page task
    lounge_items_all,   \* the lounge items of the collected airport pages
    pp_lounges_df,      \* the lounge records
    image_lookup,       \* lounge URL -> result of fetch_lounge_image
    recheck_lookup,     \* map URL -> result of recheck_and_fix
    world_airports_enriched, \* the reference airports joined with the groups
    map_df,             \* the map pins
    files,              \* the output files written so far
    session,            \* the requests.Session every task is handed
    futures             \* a pool of concurrent workers: submitted URL -> future

urlVars == <<shape, raw, call>>

pageVars == <<page, page_result>>

pipeVars == <<pc, world_airports_df, airport_links, pending, task, airport_summaries,
              lounge_items_all, pp_lounges_df, image_lookup, recheck_lookup,
              world_airports_enriched, map_df, files>>

poolVars == <<session, futures>>

vars == <<session, futures, shape, raw, call, page, page_result, pc, world_airports_df,
          airport_links, pending, task, airport_summaries, lounge_items_all, pp_lounges_df,
          image_lookup, recheck_lookup, world_airports_enriched, map_df, files>>

----------------------------------------------------------------------------
(* Bounds of the model *)

MaxSegs == 6        \* path segments of an input URL

MaxApply == 2       \* times the canonicalizer is applied in a row

MaxRedirTail == 3   \* segments of a redirect target after the listing keyword

MaxBody == 3        \* tokens of a response body

HeadTokens == 2     \* tokens of a body that lie in its first 2500 characters

MaxAnchors == 2     \* category anchors of an airport page

MaxPayload == 2     \* outlet objects of an airport page's embedded payload

----------------------------------------------------------------------------
(* Strings *)

NoneVal == <<"<None>">>

MY_PP_HOST == <<"my.prioritypass.com">>

MY_PP_LANG_PREFIX == <<"/", "en-GB">>

Schemes == {"https:", "http:"}

\* str.lower() on one token: the only mixed-case words of the model.
LowerTok(t) ==
    CASE t = "en-GB" -> "en-gb"
      [] t = "EN-gb" -> "en-gb"
      [] t = "Page Not Found" -> "page not found"
      [] t = "Lounge" -> "lounge"
      [] OTHER -> t

Lower(s) == [i \in 1..Len(s) |-> LowerTok(s[i])]

\* The least index of s holding a token of set T, or Len(s) + 1.
FindFirst(s, T) ==
    IF \E i \in 1..Len(s) : s[i] \in T
    THEN CHOOSE i \in 1..Len(s) : s[i] \in T /\ \A j \in 1..(i - 1) : s[j] \notin T
    ELSE Len(s) + 1

StartsWith(s, p) == Len(s) >= Len(p) /\ SubSeq(s, 1, Len(p)) = p

RECURSIVE StripLeft(_, _)
StripLeft(s, t) == IF s # <<>> /\ Head(s) = t THEN StripLeft(Tail(s), t) ELSE s

RECURSIVE StripRight(_, _)
StripRight(s, t) ==
    IF s # <<>> /\ s[Len(s)] = t THEN StripRight(SubSeq(s, 1, Len(s) - 1), t) ELSE s

\* str.strip(t)
Strip(s, t) == StripRight(StripLeft(s, t), t)

\* str.split("/"): the pieces between the "/" tokens, empty pieces included.
RECURSIVE Split(_)
Split(s) ==
    LET i == FindFirst(s, {"/"})
    IN  IF i > Len(s) THEN <<s>>
        ELSE <<SubSeq(s, 1, i - 1)>> \o Split(SubSeq(s, i + 1, Len(s)))

\* "/".join(parts)
RECURSIVE Join(_)
Join(parts) ==
    IF parts = <<>> THEN <<>>
    ELSE IF Len(parts) = 1 THEN parts[1]
    ELSE parts[1] \o <<"/">> \o Join(Tail(parts))

RECURSIVE NonEmpty(_)
NonEmpty(parts) ==
    IF parts = <<>> THEN <<>>
    ELSE IF Head(parts) = <<>> THEN NonEmpty(Tail(parts))
    ELSE <<Head(parts)>> \o NonEmpty(Tail(parts))

\* [p for p in path.strip("/").split("/") if p]
PathParts(path) == NonEmpty(Split(Strip(path, "/")))

\* urllib.parse.urlparse: scheme, then "//" netloc, then "#" fragment, then
\* "?" query; what is left is the path.  The steps below take what the
\* earlier steps split off as arguments.
SplitQuery(scheme, netloc, r4, fragment, qi) ==
    [scheme   |-> scheme,
     netloc   |-> netloc,
     path     |-> SubSeq(r4, 1, qi - 1),
     query    |-> SubSeq(r4, qi + 1, Len(r4)),
     fragment |-> fragment]

SplitFragment(scheme, netloc, r3, fi) ==
    SplitQuery(scheme, netloc, SubSeq(r3, 1, fi - 1), SubSeq(r3, fi + 1, Len(r3)),
               FindFirst(SubSeq(r3, 1, fi - 1), {"?"}))

SplitNetloc(scheme, r2, ne) ==
    SplitFragment(scheme, SubSeq(r2, 1, ne - 1), SubSeq(r2, ne, Len(r2)),
                  FindFirst(SubSeq(r2, ne, Len(r2)), {"#"}))

SplitScheme(scheme, r1) ==
    IF Len(r1) >= 2 /\ r1[1] = "/" /\ r1[2] = "/"
    THEN SplitNetloc(scheme, SubSeq(r1, 3, Len(r1)),
                     FindFirst(SubSeq(r1, 3, Len(r1)), {"/", "?", "#"}))
    ELSE SplitFragment(scheme, <<>>, r1, FindFirst(r1, {"#"}))

urlparse(u) ==
    IF u # <<>> /\ u[1] \in Schemes THEN SplitScheme(u[1], Tail(u))
    ELSE SplitScheme("", u)

\* urllib.parse.urlunparse((scheme, netloc, path, "", "", "")) with a netloc.
urlunparse(scheme, netloc, path) ==
    <<scheme, "/", "/">> \o netloc
        \o (IF path # <<>> /\ path[1] # "/" THEN <<"/">> ELSE <<>>) \o path

----------------------------------------------------------------------------
(* URL Canonicalizer, Detail-URL Classifier, Link Repairer *)

\* path = parsed.path if parsed.netloc else raw
PathOrRaw(parsed, rawS) == IF parsed.netloc # <<>> THEN parsed.path ELSE rawS

\* if not path.startswith("/"): path = "/" + path
LeadingSlash(path) == IF StartsWith(path, <<"/">>) THEN path ELSE <<"/">> \o path

\* if path.startswith("/lounges/"): path = MY_PP_LANG_PREFIX + path
LangPrefixed(path) ==
    IF StartsWith(path, <<"/", "lounges", "/">>) THEN MY_PP_LANG_PREFIX \o path
    ELSE path

to_my_prioritypass_url(url_or_path) ==
    IF url_or_path = <<>> THEN url_or_path
    ELSE urlunparse("https:", MY_PP_HOST,
             LangPrefixed(LeadingSlash(PathOrRaw(urlparse(url_or_path), url_or_path))))

\* is_lounge_detail_url with the prefixed form's count off by one (>= 4).
is_lounge_detail_url_offbyone(url) ==
    LET parts == PathParts(urlparse(url).path)
    IN  /\ url # <<>>
        /\ \/ /\ Len(parts) >= 4
              /\ Lower(parts[1]) = <<"en-gb">>
              /\ parts[2] = <<"lounges">>
           \/ /\ Len(parts) >= 4
              /\ parts[1] = <<"lounges">>

\* The two accepted forms, on the non-empty segments of the path.
DetailParts(parts) ==
    \/ /\ Len(parts) >= 5
       /\ Lower(parts[1]) = <<"en-gb">>
       /\ parts[2] = <<"lounges">>
    \/ /\ Len(parts) >= 4
       /\ parts[1] = <<"lounges">>

is_lounge_detail_url(url) ==
    url # <<>> /\ DetailParts(PathParts(urlparse(url).path))

\* repair_duplicated_airport_segment dropping the same index in both forms,
\* which in the prefixed form is the country segment.
repair_drops_country(url) ==
    LET parsed == urlparse(url)
        raw_parts == PathParts(parsed.path)
        scheme == IF parsed.scheme # "" THEN parsed.scheme ELSE "https:"
        netloc == IF parsed.netloc # <<>> THEN parsed.netloc ELSE MY_PP_HOST
    IN  IF \/ /\ Len(raw_parts) >= 6
              /\ Lower(raw_parts[1]) = <<"en-gb">>
              /\ raw_parts[2] = <<"lounges">>
           \/ Len(raw_parts) >= 5 /\ raw_parts[1] = <<"lounges">>
        THEN urlunparse(scheme, netloc,
                 <<"/">> \o Join(SubSeq(raw_parts, 1, 2)
                                   \o SubSeq(raw_parts, 4, Len(raw_parts))))
        ELSE url

\* urlunparse((parsed.scheme or "https", parsed.netloc or host, fixed_path))
\* where fixed_path = "/" + "/".join(fixed_parts)
FixedUrl(parsed, fixed_parts) ==
    urlunparse(IF parsed.scheme # "" THEN parsed.scheme ELSE "https:",
               IF parsed.netloc # <<>> THEN parsed.netloc ELSE MY_PP_HOST,
               <<"/">> \o Join(fixed_parts))

RepairParts(url, parsed, raw_parts) ==
    IF /\ Len(raw_parts) >= 6
       /\ Lower(raw_parts[1]) = <<"en-gb">>
       /\ raw_parts[2] = <<"lounges">>
    THEN FixedUrl(parsed, SubSeq(raw_parts, 1, 3) \o SubSeq(raw_parts, 5, Len(raw_parts)))
    ELSE IF Len(raw_parts) >= 5 /\ raw_parts[1] = <<"lounges">>
    THEN FixedUrl(parsed, SubSeq(raw_parts, 1, 2) \o SubSeq(raw_parts, 4, Len(raw_parts)))
    ELSE url

RepairParsed(url, parsed) == RepairParts(url, parsed, PathParts(parsed.path))

repair_duplicated_airport_segment(url) == RepairParsed(url, urlparse(url))

\* return candidate if is_lounge_detail_url(candidate) else None
DetailOrNone(candidate) == IF is_lounge_detail_url(candidate) THEN candidate ELSE NoneVal

\* to_my_prioritypass_url(f"/en-GB/lounges/{country_slug}/{airport_slug}/{detail_slug}")
Rebuilt(country_slug, airport_slug, detail_slug) ==
    to_my_prioritypass_url(<<"/", "en-GB", "/", "lounges", "/">> \o country_slug
                               \o <<"/">> \o airport_slug \o <<"/">> \o detail_slug)

\* r_parts[0].lower() == "en-gb" and r_parts[1] == "lounges"
ListingParts(r_parts) == Lower(r_parts[1]) = <<"en-gb">> /\ r_parts[2] = <<"lounges">>

\* The two branches exclude each other (>= 4 segments, == 3 segments), so a
\* rebuilt URL that is no detail URL ends in None in either.
RecoverParts(o_parts, r_parts) ==
    IF Len(o_parts) < 5 THEN NoneVal
    ELSE IF Len(r_parts) >= 4 /\ ListingParts(r_parts)
    THEN DetailOrNone(Rebuilt(r_parts[3], r_parts[4], o_parts[Len(o_parts)]))
    ELSE IF Len(r_parts) = 3 /\ ListingParts(r_parts)
    THEN DetailOrNone(Rebuilt(r_parts[3], o_parts[Len(o_parts) - 1],
                              o_parts[Len(o_parts)]))
    ELSE NoneVal

try_recover_detail_url_from_redirect(original_url, redirected_url) ==
    RecoverParts(PathParts(urlparse(original_url).path),
                 PathParts(urlparse(redirected_url).path))

----------------------------------------------------------------------------
(* Liveness probe *)

Contains(s, t) == \E i \in 1..Len(s) : s[i] = t

\* (response.text or "")[:2500].lower()
HtmlHead(text) ==
    Lower(SubSeq(text, 1, IF Len(text) < HeadTokens THEN Len(text) ELSE HeadTokens))

\* check_url_ok without the lounge exemption of the "404" marker.
check_url_ok_no_exemption(url, response) ==
    IF ~is_lounge_detail_url(url) THEN [ok |-> FALSE, url |-> url, requested |-> FALSE]
    ELSE IF ~is_lounge_detail_url(response.url)
    THEN [ok |-> FALSE, url |-> response.url, requested |-> TRUE]
    ELSE LET html_head == HtmlHead(response.text)
             looks_not_found ==
                 \/ Contains(html_head, "page not found")
                 \/ Contains(html_head, "404")
         IN  [ok |-> response.status_code < 400 /\ ~looks_not_found,
              url |-> response.url, requested |-> TRUE]

\* check_url_ok(session, url) where the site answers the request (if one is
\* made) with `response`: the verdict, the resolved URL, and whether the
\* request was made.
check_url_ok(url, response) ==
    IF ~is_lounge_detail_url(url) THEN [ok |-> FALSE, url |-> url, requested |-> FALSE]
    ELSE IF ~is_lounge_detail_url(response.url)
    THEN [ok |-> FALSE, url |-> response.url, requested |-> TRUE]
    ELSE LET html_head == HtmlHead(response.text)
             looks_not_found ==
                 \/ Contains(html_head, "page not found")
                 \/ Contains(html_head, "404") /\ ~Contains(html_head, "lounge")
         IN  [ok |-> response.status_code < 400 /\ ~looks_not_found,
              url |-> response.url, requested |-> TRUE]

----------------------------------------------------------------------------
(* Page Extractor *)

BASE_URL == <<"https:", "/", "/", "www.prioritypass.com">>

\* href.startswith("http://") or href.startswith("https://")
IsAbsolute(href) ==
    Len(href) >= 3 /\ href[1] \in Schemes /\ href[2] = "/" /\ href[3] = "/"

normalize_lounge_detail_url(country_slug, href) ==
    IF href = <<>> \/ href[1] = "#" THEN NoneVal
    ELSE IF IsAbsolute(href) \/ StartsWith(href, <<"/">>)
    THEN DetailOrNone(to_my_prioritypass_url(href))
    ELSE IF country_slug = <<>> THEN NoneVal
    ELSE DetailOrNone(to_my_prioritypass_url(
             <<"/", "lounges", "/">> \o country_slug \o <<"/">> \o StripLeft(href, "/")))

\* str.upper() on the words an anchor's text may open with.
UpperTok(t) ==
    CASE t = "Lounge" -> "LOUNGE"
      [] t = "Dining" -> "DINING"
      [] t = "Relax" -> "RELAX"
      [] OTHER -> t

\* re.match(r"([A-Z]{3})", ...) on the detail slugs of the model: the three
\* letters the slug opens with, none when it opens with fewer ("t1-lounge").
IataPrefix(word) ==
    CASE word = "atl-club" -> <<"ATL">>
      [] word = "atl-sky" -> <<"ATL">>
      [] word = "atl-spa" -> <<"ATL">>
      [] word = "jfk-sky" -> <<"JFK">>
      [] word = "lhr-club" -> <<"LHR">>
      [] word = "zzz-club" -> <<"ZZZ">>
      [] OTHER -> NoneVal

\* The page's title holds an IATA code next to "Lounges" (title_iata) or
\* holds none; the airport's own IATA code is not part of the model.
\* path_parts = airport_url.replace(BASE_URL, "").strip("/").split("/")
AirportPathParts(airport_url) ==
    Split(Strip(IF StartsWith(airport_url, BASE_URL)
                THEN SubSeq(airport_url, Len(BASE_URL) + 1, Len(airport_url))
                ELSE airport_url, "/"))

\* The item of a category anchor.
AnchorRecord(anchor, item_type, detail_url, detail_slug, iata_from_title) ==
    [experience_type |-> item_type,
     experience_name |-> IF Len(anchor.text) > 1 THEN Tail(anchor.text) ELSE anchor.text,
     experience_detail_url |-> detail_url,
     experience_detail_slug |-> detail_slug,
     iata_from_code |-> IataPrefix(detail_slug[1]),
     iata_from_title |-> iata_from_title]

\* detail_url.rstrip("/").split("/")[-1]
LastPiece(pieces) == pieces[Len(pieces)]

AnchorDetail(anchor, item_type, detail_url, iata_from_title) ==
    IF detail_url = NoneVal THEN <<>>
    ELSE <<AnchorRecord(anchor, item_type, detail_url,
                        LastPiece(Split(StripRight(detail_url, "/"))),
                        iata_from_title)>>

\* One turn of the anchor loop: the item of the anchor, or nothing.
AnchorItem(anchor, country_slug, iata_from_title) ==
    IF anchor.href = <<>> \/ anchor.text = <<>> THEN <<>>
    ELSE IF UpperTok(anchor.text[1]) \notin {"LOUNGE", "DINING", "RELAX"} THEN <<>>
    ELSE AnchorDetail(anchor, UpperTok(anchor.text[1]),
                      normalize_lounge_detail_url(country_slug, anchor.href),
                      iata_from_title)

\* The anchor pass: one item per anchor whose text opens with a category
\* keyword and whose href normalizes to a detail URL.
RECURSIVE AnchorPass(_, _, _)
AnchorPass(anchors, country_slug, iata_from_title) ==
    IF anchors = <<>> THEN <<>>
    ELSE AnchorItem(Head(anchors), country_slug, iata_from_title)
             \o AnchorPass(Tail(anchors), country_slug, iata_from_title)

\* One match of the payload pattern: the item of the outlet object, or
\* nothing; the detail path is the one found in the page for the slug, else
\* it is put together from the airport's own slugs.
OutletItem(m, country_slug, airport_slug, iata_from_title) ==
    IF m.category = "" \/ m.name = <<>> \/ m.slug = <<>> THEN <<>>
    ELSE <<[experience_type |-> m.category,
            experience_name |-> m.name,
            experience_detail_url |->
                IF m.path # <<>> THEN to_my_prioritypass_url(m.path)
                ELSE to_my_prioritypass_url(
                         <<"/", "lounges", "/">> \o country_slug \o <<"/">>
                             \o airport_slug \o <<"/">> \o m.slug),
            experience_detail_slug |-> m.slug,
            iata_from_code |-> IataPrefix(m.slug[1]),
            iata_from_title |-> iata_from_title]>>

RECURSIVE extract_outlet_items_from_embedded_payload(_, _, _, _)
extract_outlet_items_from_embedded_payload(payload, country_slug, airport_slug, iata_from_title) ==
    IF payload = <<>> THEN <<>>
    ELSE OutletItem(Head(payload), country_slug, airport_slug, iata_from_title)
             \o extract_outlet_items_from_embedded_payload(
                    Tail(payload), country_slug, airport_slug, iata_from_title)

Key(it) == <<it.experience_type, it.experience_detail_slug>>

\* dedupe keeping the last record of a key instead of the first.
RECURSIVE dedupe_keep_last(_)
dedupe_keep_last(items) ==
    IF items = <<>> THEN <<>>
    ELSE LET rest == Tail(items)
         IN  IF \E j \in 1..Len(rest) : Key(rest[j]) = Key(Head(items))
             THEN dedupe_keep_last(rest)
             ELSE <<Head(items)>> \o dedupe_keep_last(rest)

\* dedupe: the first record of every (type, detail slug) key, in order.
RECURSIVE DedupeFrom(_, _)
DedupeFrom(items, seen) ==
    IF items = <<>> THEN <<>>
    ELSE IF Key(Head(items)) \in seen THEN DedupeFrom(Tail(items), seen)
    ELSE <<Head(items)>> \o DedupeFrom(Tail(items), seen \cup {Key(Head(items))})

dedupe(items) == DedupeFrom(items, {})

Lounges(items) == SelectSeq(items, LAMBDA it : it.experience_type = "LOUNGE")

NonLounges(items) == SelectSeq(items, LAMBDA it : it.experience_type # "LOUNGE")

\* The dictionary parse_airport_page returns, beside the items of either
\* pass as they were before the merge (which the code does not return).
PageResult(pg, country_slug, airport_slug, anchor_items, embedded_items, lounge_items, non_lounge_items) ==
    [airport_url |-> pg.airport_url,
     airport_slug |-> airport_slug,
     country_slug |-> country_slug,
     lounge_count |-> Len(lounge_items),
     non_lounge_count |-> Len(non_lounge_items),
     all_experience_count |-> Len(lounge_items) + Len(non_lounge_items),
     lounge_items |-> lounge_items,
     non_lounge_items |-> non_lounge_items,
     anchor_items |-> anchor_items,
     embedded_items |-> embedded_items]

\* The items of the two passes are appended by category, anchor items
\* first, and either list is deduplicated.
MergePasses(pg, country_slug, airport_slug, anchor_items, embedded_items) ==
    PageResult(pg, country_slug, airport_slug, anchor_items, embedded_items,
               dedupe(Lounges(anchor_items) \o Lounges(embedded_items)),
               dedupe(NonLounges(anchor_items) \o NonLounges(embedded_items)))

ParseWithSlugs(pg, country_slug, airport_slug) ==
    MergePasses(pg, country_slug, airport_slug,
                AnchorPass(pg.anchors, country_slug, pg.title_iata),
                extract_outlet_items_from_embedded_payload(
                    pg.payload, country_slug, airport_slug, pg.title_iata))

ParseWithParts(pg, path_parts) ==
    ParseWithSlugs(pg,
                   IF Len(path_parts) > 2 THEN path_parts[2] ELSE <<>>,
                   IF Len(path_parts) > 2 THEN path_parts[3] ELSE <<>>)

parse_airport_page(pg) == ParseWithParts(pg, AirportPathParts(pg.airport_url))

----------------------------------------------------------------------------
(* Validation / Recheck Engine: the two ladders, one request per step *)

\* A task of the lounge-detail pool or of the recheck pool.  pc is the
\* request the task makes next; probes is the history of its liveness
\* probes and verdict the rung of the ladder that settled it (neither is
\* read by the code).
NoTask ==
    [kind |-> "none", source |-> <<>>, pc |-> "idle", lounge_url |-> <<>>,
     resolved_url |-> NoneVal, cand |-> <<>>, probes |-> <<>>,
     result |-> <<>>, verdict |-> "Candidate"]

NewTask(kind, url) ==
    [NoTask EXCEPT !.kind = kind, !.source = url, !.pc = "check", !.lounge_url = url]

Probed(t, url, v) ==
    [t EXCEPT !.probes = Append(@, [url |-> url, ok |-> v.ok, resolved |-> v.url])]

\* The URL the task requests next.
RequestUrl(t) ==
    CASE t.pc = "check" -> t.lounge_url
      [] t.pc = "get" -> t.resolved_url
      [] OTHER -> t.cand

\* The rung a probe that is ok settles the URL on.
Rung(t) ==
    CASE t.pc = "check" -> "Valid"
      [] t.pc = "check_recovered" -> "Recovered"
      [] OTHER -> "Repaired"

ImageResult(image, title, resolved) ==
    [lounge_image_url |-> image, lounge_title |-> title, resolved_detail_url |-> resolved]

\* except Exception: return {None, None, None}
ImageError(t) ==
    [t EXCEPT !.pc = "done", !.verdict = "Error",
              !.result = ImageResult(NoneVal, NoneVal, NoneVal)]

\* if not ok: return {None, None, resolved_url}
ImageNotOk(t) ==
    [t EXCEPT !.pc = "done", !.verdict = "Discarded",
              !.result = ImageResult(NoneVal, NoneVal, t.resolved_url)]

\* The probe is ok: lounge_url and resolved_url are taken over and the page
\* is fetched next.
ImageOk(t, url, v) ==
    [t EXCEPT !.lounge_url = url, !.resolved_url = v.url, !.pc = "get",
              !.verdict = Rung(t)]

ImageRepaired(t, repaired) ==
    IF repaired # t.lounge_url
    THEN [t EXCEPT !.pc = "check_repaired", !.cand = repaired]
    ELSE ImageNotOk(t)

\* if not ok: repaired = repair_duplicated_airport_segment(lounge_url) ...
ImageRepair(t) == ImageRepaired(t, repair_duplicated_airport_segment(t.lounge_url))

\* recovered = try_recover_detail_url_from_redirect(lounge_url, resolved_url)
ImageRecovered(t, recovered) ==
    IF recovered # NoneVal
    THEN [t EXCEPT !.pc = "check_recovered", !.cand = recovered]
    ELSE ImageRepair(t)

\* recovered2 = try_recover_detail_url_from_redirect(repaired, resolved2)
ImageRecovered2(t, recovered2) ==
    IF recovered2 # NoneVal
    THEN [t EXCEPT !.pc = "check_recovered2", !.cand = recovered2]
    ELSE ImageNotOk(t)

\* The probe of url answered v and is not ok.
ImageProbeNotOk(t, url, v) ==
    IF t.pc = "check"
    THEN ImageRecovered([t EXCEPT !.resolved_url = v.url],
                        try_recover_detail_url_from_redirect(t.lounge_url, v.url))
    ELSE IF t.pc = "check_recovered" THEN ImageRepair(t)
    ELSE IF t.pc = "check_repaired"
    THEN ImageRecovered2(t, try_recover_detail_url_from_redirect(url, v.url))
    ELSE ImageNotOk(t)

ImageProbe(t, url, response, v) ==
    IF v.requested /\ response.raised THEN ImageError(t)
    ELSE IF v.ok THEN ImageOk(Probed(t, url, v), url, v)
    ELSE ImageProbeNotOk(Probed(t, url, v), url, v)

\* response = session.get(resolved_url); response.raise_for_status(); the
\* image and the title are read off the page.
ImageGet(t, response) ==
    IF response.raised \/ response.status_code >= 400 THEN ImageError(t)
    ELSE [t EXCEPT !.pc = "done",
                   !.result = ImageResult(response.image, response.title,
                                          to_my_prioritypass_url(response.url))]

\* fetch_lounge_image, from the request the task is at up to its next
\* request or its return; response is the site's answer to the request.
fetch_lounge_image(t, response) ==
    IF t.pc = "get" THEN ImageGet(t, response)
    ELSE ImageProbe(t, RequestUrl(t), response, check_url_ok(RequestUrl(t), response))

\* return to_my_prioritypass_url(resolved)
RecheckOk(t, v) ==
    [t EXCEPT !.pc = "done", !.verdict = Rung(t),
              !.result = to_my_prioritypass_url(v.url)]

\* return ""
RecheckNotOk(t, verdict) == [t EXCEPT !.pc = "done", !.verdict = verdict, !.result = <<>>]

RecheckRepaired(t, repaired) ==
    IF repaired # t.lounge_url
    THEN [t EXCEPT !.pc = "check_repaired", !.cand = repaired]
    ELSE RecheckNotOk(t, "Discarded")

\* repaired = repair_duplicated_airport_segment(url)
RecheckRepair(t) == RecheckRepaired(t, repair_duplicated_airport_segment(t.lounge_url))

\* recovered = try_recover_detail_url_from_redirect(url, resolved)
RecheckRecovered(t, recovered) ==
    IF recovered # NoneVal
    THEN [t EXCEPT !.pc = "check_recovered", !.cand = recovered]
    ELSE RecheckRepair(t)

\* recovered2 = try_recover_detail_url_from_redirect(repaired, resolved2)
RecheckRecovered2(t, recovered2) ==
    IF recovered2 # NoneVal
    THEN [t EXCEPT !.pc = "check_recovered2", !.cand = recovered2]
    ELSE RecheckNotOk(t, "Discarded")

\* The probe of url answered v and is not ok.
RecheckProbeNotOk(t, url, v) ==
    IF t.pc = "check"
    THEN RecheckRecovered(t, try_recover_detail_url_from_redirect(url, v.url))
    ELSE IF t.pc = "check_recovered" THEN RecheckRepair(t)
    ELSE IF t.pc = "check_repaired"
    THEN RecheckRecovered2(t, try_recover_detail_url_from_redirect(url, v.url))
    ELSE RecheckNotOk(t, "Discarded")

\* RecheckProbe, had an exception of a probe left recheck_and_fix.
RecheckProbePropagates(t, url, response, v) ==
    IF v.requested /\ response.raised
    THEN [t EXCEPT !.pc = "done", !.verdict = "Error", !.result = NoneVal]
    ELSE IF v.ok THEN RecheckOk(Probed(t, url, v), v)
    ELSE RecheckProbeNotOk(Probed(t, url, v), url, v)

RecheckProbe(t, url, response, v) ==
    IF v.requested /\ response.raised THEN RecheckNotOk(t, "Error")
    ELSE IF v.ok THEN RecheckOk(Probed(t, url, v), v)
    ELSE RecheckProbeNotOk(Probed(t, url, v), url, v)

\* recheck_and_fix past its first test, from the request the task is at up
\* to its next request or its return.
recheck_and_fix(t, response) ==
    RecheckProbe(t, RequestUrl(t), response, check_url_ok(RequestUrl(t), response))

----------------------------------------------------------------------------
(* Aggregation Pipeline *)

Range(f) == {f[i] : i \in DOMAIN f}

NaN == <<>>

\* The lounge records of the extracted items: LOUNGE only, with a
\* three-letter IATA code, with a detail URL.
LoungeFrame(items) ==
    LET coded == [i \in 1..Len(items) |->
                     [experience_type |-> items[i].experience_type,
                      experience_name |-> items[i].experience_name,
                      experience_detail_url |-> items[i].experience_detail_url,
                      experience_detail_slug |-> items[i].experience_detail_slug,
                      iata_code |-> IF items[i].iata_from_code # NoneVal
                                    THEN items[i].iata_from_code
                                    ELSE IF items[i].iata_from_title # NoneVal
                                    THEN items[i].iata_from_title
                                    ELSE <<>>,
                      lounge_image_url |-> NoneVal,
                      state |-> "Candidate"]]
    IN  SelectSeq(coded, LAMBDA r : /\ r.experience_type = "LOUNGE"
                                    /\ r.iata_code # <<>>
                                    /\ is_lounge_detail_url(r.experience_detail_url))

\* Lines 881-893: the image and the resolved URL of every record; a record
\* whose lookup holds no resolved URL keeps its own.  state is the rung
\* that settled the record's URL (not read by the code).
ApplyImageLookup(df, lookup) ==
    [i \in 1..Len(df) |->
        LET u == df[i].experience_detail_url
            hit == u \in DOMAIN lookup
            resolved == IF hit THEN lookup[u].result.resolved_detail_url ELSE NoneVal
        IN  [df[i] EXCEPT
                !.lounge_image_url = IF hit THEN lookup[u].result.lounge_image_url
                                     ELSE NoneVal,
                !.experience_detail_url = IF resolved # NoneVal THEN resolved ELSE u,
                !.state = IF hit THEN lookup[u].verdict ELSE "Candidate"]]

\* ApplyRecheckLookup, had the records without a recheck result kept their
\* URL and stayed.
ApplyRecheckLookupKeepsAll(df, lookup) ==
    [i \in 1..Len(df) |->
        LET u == df[i].experience_detail_url
            hit == u \in DOMAIN lookup /\ lookup[u].result # <<>>
        IN  [df[i] EXCEPT !.experience_detail_url = IF hit THEN lookup[u].result ELSE u,
                          !.state = IF u \in DOMAIN lookup THEN lookup[u].verdict
                                    ELSE "Unchecked"]]

\* Lines 980-983: every record's URL becomes its recheck result, "" when
\* the URL was not rechecked, and the records left without a URL go.
ApplyRecheckLookup(df, lookup) ==
    LET mapped == [i \in 1..Len(df) |->
                      LET u == df[i].experience_detail_url
                      IN  [df[i] EXCEPT
                              !.experience_detail_url =
                                  IF u \in DOMAIN lookup THEN lookup[u].result ELSE <<>>,
                              !.state = IF u \in DOMAIN lookup THEN lookup[u].verdict
                                        ELSE "Unchecked"]]
    IN  SelectSeq(mapped, LAMBDA r : r.experience_detail_url # <<>>)

Chunk(df, iata) == SelectSeq(df, LAMBDA r : r.iata_code = iata)

LoungeItem(r) ==
    [experience_name |-> r.experience_name,
     experience_detail_url |-> r.experience_detail_url,
     lounge_image_url |-> r.lounge_image_url]

\* chunk[[name, url, image]].drop_duplicates(): the first row of every
\* distinct (name, url, image), in row order.
RECURSIVE DropDuplicates(_, _)
DropDuplicates(rows, seen) ==
    IF rows = <<>> THEN <<>>
    ELSE IF Head(rows) \in seen THEN DropDuplicates(Tail(rows), seen)
    ELSE <<Head(rows)>> \o DropDuplicates(Tail(rows), seen \cup {Head(rows)})

\* pp_grouped: one group per IATA code of the lounge records.
Grouped(df) ==
    [iata \in {df[i].iata_code : i \in 1..Len(df)} |->
        LET chunk == Chunk(df, iata)
        IN  [lounge_count |-> Len(chunk),
             lounge_names |-> {chunk[i].experience_name : i \in 1..Len(chunk)},
             lounge_items_json |->
                 DropDuplicates([i \in 1..Len(chunk) |-> LoungeItem(chunk[i])], {})]]

\* world_airports_df.merge(pp_grouped, how="left", on="iata_code") and the
\* has_priority_lounge flag.
Enriched(world, df) ==
    LET grouped == Grouped(df)
    IN  [i \in 1..Len(world) |->
            LET hit == world[i].iata_code \in DOMAIN grouped
                lounge_count == IF hit THEN <<grouped[world[i].iata_code].lounge_count>>
                                ELSE NaN
            IN  [ident |-> world[i].ident,
                 iata_code |-> world[i].iata_code,
                 latitude_deg |-> world[i].latitude_deg,
                 longitude_deg |-> world[i].longitude_deg,
                 lounge_count |-> lounge_count,
                 lounge_names |-> IF hit THEN grouped[world[i].iata_code].lounge_names
                                  ELSE {},
                 lounge_items_json |->
                     IF hit THEN grouped[world[i].iata_code].lounge_items_json ELSE <<>>,
                 has_priority_lounge |->
                     (IF lounge_count = NaN THEN 0 ELSE lounge_count[1]) > 0]]

\* MapPins without the test of the longitude.
MapPinsLatOnly(enriched) ==
    SelectSeq(enriched, LAMBDA a : a.has_priority_lounge /\ a.latitude_deg # NaN)

\* map_df: the airports with a lounge and both coordinates.
MapPins(enriched) ==
    SelectSeq(enriched, LAMBDA a : /\ a.has_priority_lounge
                                   /\ a.latitude_deg # NaN
                                   /\ a.longitude_deg # NaN)

\* unique_map_urls: the URLs of the records of the airports on the map.
UniqueMapUrls(df, pins) ==
    LET map_iatas == {pins[i].iata_code : i \in 1..Len(pins)}
    IN  {df[i].experience_detail_url :
            i \in {j \in 1..Len(df) : df[j].iata_code \in map_iatas}}

----------------------------------------------------------------------------
(* Inputs of the URL functions *)

\* The five input shapes of the canonicalizer: absolute URL on either host,
\* site-relative path, bare path without its leading slash.
Forms == {"abs_www", "abs_my", "path", "bare"}

\* The words a path segment may be, by position.
WordsAt(i) ==
    IF i = 1 THEN {"en-GB", "EN-gb", "lounges", "usa"}
    ELSE IF i = 2 THEN {"lounges", "usa"}
    ELSE {"usa", "atl"}

SegLists ==
    UNION {{s \in [1..n -> {"en-GB", "EN-gb", "lounges", "usa", "atl"}] :
               \A i \in 1..n : s[i] \in WordsAt(i)} : n \in 0..MaxSegs}

Shapes ==
    {sh \in [form : Forms, segs : SegLists, slash : BOOLEAN,
             query : BOOLEAN, fragment : BOOLEAN] :
        /\ sh.slash => sh.segs # <<>>
        /\ sh.form = "bare" => sh.segs # <<>>}

\* The string a shape stands for.
Render(sh) ==
    LET segs == [i \in 1..Len(sh.segs) |-> <<sh.segs[i]>>]
        lead == CASE sh.form = "abs_www" -> <<"http:", "/", "/", "www.prioritypass.com">>
                  [] sh.form = "abs_my" -> <<"https:", "/", "/", "my.prioritypass.com">>
                  [] sh.form = "path" -> <<>>
                  [] sh.form = "bare" -> <<>>
        path == (IF sh.form = "bare" \/ (sh.form # "path" /\ sh.segs = <<>>)
                 THEN <<>> ELSE <<"/">>)
                \o Join(segs)
                \o (IF sh.slash THEN <<"/">> ELSE <<>>)
    IN  lead \o path
             \o (IF sh.query THEN <<"?", "fromLounge=1">> ELSE <<>>)
             \o (IF sh.fragment THEN <<"#", "top">> ELSE <<>>)

\* The URLs a request may land on (response.url): absolute, on the canonical
\* host, with or without the language prefix, from the listing root down to
\* a detail-level path, with or without a query string.
RedirWords == <<"united-states", "hartsfield", "the-club", "annex", "gate">>

RedirSegs ==
    {p \o SubSeq(RedirWords, 1, k) :
        p \in {<<"en-GB", "lounges">>, <<"EN-gb", "lounges">>, <<"lounges">>},
        k \in 0..MaxRedirTail}

RedirShapes ==
    [form : {"abs_my"}, segs : RedirSegs, slash : {FALSE},
     query : BOOLEAN, fragment : {FALSE}]

NoCall == [fn |-> "none", arg |-> <<>>, arg2 |-> <<>>, ret |-> <<>>,
           ok |-> FALSE, n |-> 0, rshape |-> <<>>, status |-> 0, text |-> <<>>]

\* The values of the variables a specification does not use.
UrlIdle ==
    /\ shape = [form |-> "path", segs |-> <<>>, slash |-> FALSE,
                query |-> FALSE, fragment |-> FALSE]
    /\ raw = <<>>
    /\ call = NoCall

NoPage == [airport_url |-> <<>>, title_iata |-> NoneVal, anchors |-> <<>>,
           payload |-> <<>>]

NotParsed == [airport_url |-> <<>>]

PageIdle == page = NoPage /\ page_result = NotParsed

\* build_requests_session(): a session without cookies.
NoSession == [cookies |-> <<>>]

PoolIdle == session = NoSession /\ futures = <<>>

PipeIdle ==
    /\ pc = "off"
    /\ world_airports_df = <<>>
    /\ airport_links = <<>>
    /\ pending = {}
    /\ task = NoTask
    /\ airport_summaries = <<>>
    /\ lounge_items_all = <<>>
    /\ pp_lounges_df = <<>>
    /\ image_lookup = <<>>
    /\ recheck_lookup = <<>>
    /\ world_airports_enriched = <<>>
    /\ map_df = <<>>
    /\ files = {}

InitUrl ==
    /\ shape \in Shapes
    /\ raw = Render(shape)
    /\ call = NoCall
    /\ PageIdle
    /\ PipeIdle
    /\ PoolIdle

\* canonicalize(x)
Canonicalize ==
    /\ call.fn = "none"
    /\ call' = [NoCall EXCEPT !.fn = "to_my_prioritypass_url", !.arg = raw,
                                !.ret = to_my_prioritypass_url(raw), !.n = 1]
    /\ UNCHANGED <<shape, raw, pageVars, pipeVars, poolVars>>

\* canonicalize applied to the result of the previous canonicalize
Recanonicalize ==
    /\ call.fn = "to_my_prioritypass_url"
    /\ call.n < MaxApply
    /\ call' = [call EXCEPT !.arg = call.ret,
                             !.ret = to_my_prioritypass_url(call.ret),
                             !.n = call.n + 1]
    /\ UNCHANGED <<shape, raw, pageVars, pipeVars, poolVars>>

Classify ==
    /\ call.fn = "none"
    /\ call' = [NoCall EXCEPT !.fn = "is_lounge_detail_url", !.arg = raw,
                                !.ok = is_lounge_detail_url(raw), !.n = 1]
    /\ UNCHANGED <<shape, raw, pageVars, pipeVars, poolVars>>

Repair ==
    /\ call.fn = "none"
    /\ call' = [NoCall EXCEPT !.fn = "repair_duplicated_airport_segment",
                                !.arg = raw,
                                !.ret = repair_duplicated_airport_segment(raw),
                                !.n = 1]
    /\ UNCHANGED <<shape, raw, pageVars, pipeVars, poolVars>>

Recover ==
    /\ call.fn = "none"
    /\ \E r \in RedirShapes :
          call' = [NoCall EXCEPT !.fn = "try_recover_detail_url_from_redirect",
                                  !.arg = raw, !.arg2 = Render(r), !.rshape = r.segs,
                                  !.ret = try_recover_detail_url_from_redirect(
                                              raw, Render(r)),
                                  !.n = 1]
    /\ UNCHANGED <<shape, raw, pageVars, pipeVars, poolVars>>

NextUrl ==
    \/ Canonicalize
    \/ Recanonicalize
    \/ Classify
    \/ Repair
    \/ Recover

SpecUrl == InitUrl /\ [][NextUrl]_vars

----------------------------------------------------------------------------
(* One liveness probe against every answer of the site *)

\* The probed URLs: a prefixed detail URL, an unprefixed detail URL, an
\* airport page.
ProbeShapes ==
    {sh \in Shapes :
        /\ sh.form = "abs_my" /\ ~sh.slash /\ ~sh.query /\ ~sh.fragment
        /\ sh.segs \in {<<"en-GB", "lounges", "usa", "atl", "atl">>,
                        <<"lounges", "usa", "atl", "atl">>,
                        <<"en-GB", "lounges", "usa", "atl">>}}

StatusCodes == {200, 399, 400, 404}

BodyTokens == {"Page Not Found", "404", "Lounge", "lorem"}

Bodies == UNION {[1..n -> BodyTokens] : n \in 0..MaxBody}

InitProbe ==
    /\ shape \in ProbeShapes
    /\ raw = Render(shape)
    /\ call = NoCall
    /\ PageIdle
    /\ PipeIdle
    /\ PoolIdle

Probe ==
    /\ call.fn = "none"
    /\ \E r \in RedirShapes, st \in StatusCodes, body \in Bodies :
          LET response == [url |-> Render(r), status_code |-> st, text |-> body]
              v == check_url_ok(raw, response)
          IN  call' = [NoCall EXCEPT !.fn = "check_url_ok", !.arg = raw,
                                      !.arg2 = response.url, !.rshape = r.segs,
                                      !.status = st, !.text = body,
                                      !.ok = v.ok, !.ret = v.url, !.n = 1]
    /\ UNCHANGED <<shape, raw, pageVars, pipeVars, poolVars>>

NextProbe ==
    \/ Probe

SpecProbe == InitProbe /\ [][NextProbe]_vars

----------------------------------------------------------------------------
(* One airport page through the extractor *)

AIRPORT_URL == BASE_URL \o <<"/", "lounges", "/", "usa", "/", "atl">>

\* The anchors of the page: category cards (site-relative, card-relative
\* and absolute hrefs), a card of the airport itself, a link that is no
\* category card.
Anchors ==
    {[text |-> <<"LOUNGE", "The Club">>,
      href |-> <<"/", "lounges", "/", "usa", "/", "atl", "/", "atl-club">>],
     [text |-> <<"Lounge", "The Club (again)">>,
      href |-> <<"https:", "/", "/", "www.prioritypass.com", "/", "en-GB", "/",
                 "lounges", "/", "usa", "/", "atl", "/", "atl-club", "/">>],
     [text |-> <<"LOUNGE", "Sky Lounge">>, href |-> <<"atl", "/", "atl-sky">>],
     [text |-> <<"Dining", "Sky Grill">>, href |-> <<"atl", "/", "atl-sky">>],
     [text |-> <<"LOUNGE", "Atlanta">>,
      href |-> <<"/", "lounges", "/", "usa", "/", "atl">>],
     [text |-> <<"Book", "The Club">>,
      href |-> <<"/", "lounges", "/", "usa", "/", "atl", "/", "atl-club">>]}

\* The outlet objects of the embedded payload; path is the detail path the
\* page holds for the slug, empty when it holds none.
PayloadObjects ==
    {[category |-> "LOUNGE", name |-> <<"The Club (tab)">>, slug |-> <<"atl-club">>,
      path |-> <<>>],
     [category |-> "LOUNGE", name |-> <<"The Spa">>, slug |-> <<"atl-spa">>,
      path |-> <<"/", "en-GB", "/", "lounges", "/", "usa", "/", "atlanta", "/",
                 "atl-spa">>],
     [category |-> "DINING", name |-> <<"Sky Grill (tab)">>, slug |-> <<"atl-sky">>,
      path |-> <<>>],
     [category |-> "RELAX", name |-> <<"The Spa">>, slug |-> <<"atl-spa">>,
      path |-> <<>>]}

Pages ==
    [airport_url : {AIRPORT_URL},
     title_iata : {NoneVal, <<"ATL">>},
     anchors : UNION {[1..n -> Anchors] : n \in 0..MaxAnchors},
     payload : UNION {[1..n -> PayloadObjects] : n \in 0..MaxPayload}]

InitPage ==
    /\ page \in Pages
    /\ page_result = NotParsed
    /\ UrlIdle
    /\ PipeIdle
    /\ PoolIdle

ParseAirportPage ==
    /\ page_result = NotParsed
    /\ page_result' = parse_airport_page(page)
    /\ UNCHANGED <<page, urlVars, pipeVars, poolVars>>

NextPage ==
    \/ ParseAirportPage

SpecPage == InitPage /\ [][NextPage]_vars

----------------------------------------------------------------------------
(* run_pipeline against every answer of the two sites *)

ATL_URL == BASE_URL \o <<"/", "lounges", "/", "usa", "/", "atl">>

JFK_URL == BASE_URL \o <<"/", "lounges", "/", "usa", "/", "jfk">>

\* parse_priority_pass_airport_links(index_html): sorted.
IndexLinks == <<ATL_URL, JFK_URL>>

ClubAnchor ==
    [text |-> <<"LOUNGE", "The Club">>, href |-> <<"atl", "/", "atl", "/", "atl-club">>]

\* The airport pages the site may serve for a link: Atlanta lists one
\* lounge under a path that names the airport twice, with or without a
\* dining outlet; New York lists its own lounge, or a lounge whose slug
\* opens with no code beside the Atlanta lounge once more, or that lounge
\* alone under a title that names no code, or a second Atlanta lounge.
PagesOf(url) ==
    IF url = ATL_URL
    THEN {[airport_url |-> url, title_iata |-> <<"ATL">>, anchors |-> <<ClubAnchor>>,
           payload |-> <<>>],
          [airport_url |-> url, title_iata |-> NoneVal,
           anchors |-> <<ClubAnchor,
                         [text |-> <<"Dining", "Sky Grill">>,
                          href |-> <<"atl", "/", "atl-sky">>]>>,
           payload |-> <<[category |-> "LOUNGE", name |-> <<"The Club">>,
                          slug |-> <<"atl-club">>,
                          path |-> <<"/", "lounges", "/", "usa", "/", "atl", "/",
                                     "atl", "/", "atl-club">>]>>]}
    ELSE {[airport_url |-> url, title_iata |-> <<"JFK">>,
           anchors |-> <<[text |-> <<"Lounge", "Sky Lounge">>,
                          href |-> <<"jfk", "/", "jfk-sky">>]>>,
           payload |-> <<>>],
          [airport_url |-> url, title_iata |-> <<"JFK">>,
           anchors |-> <<[text |-> <<"LOUNGE", "T1 Lounge">>,
                          href |-> <<"/", "lounges", "/", "usa", "/", "jfk", "/",
                                     "t1-lounge">>],
                         ClubAnchor>>,
           payload |-> <<>>],
          [airport_url |-> url, title_iata |-> NoneVal,
           anchors |-> <<[text |-> <<"LOUNGE", "T1 Lounge">>,
                          href |-> <<"/", "lounges", "/", "usa", "/", "jfk", "/",
                                     "t1-lounge">>]>>,
           payload |-> <<>>],
          [airport_url |-> url, title_iata |-> <<"JFK">>,
           anchors |-> <<[text |-> <<"LOUNGE", "Sky Club">>,
                          href |-> <<"atl", "/", "atl-sky">>]>>,
           payload |-> <<>>]}

\* A coordinate column holds a number or NaN.
Coordinates == {NaN, <<"deg">>}

\* The reference datasets: Atlanta with both coordinates, a second row of
\* the same code (a closed field) without its latitude, New York with or
\* without its longitude, Heathrow with both.
Worlds ==
    {<<[ident |-> "KATL", iata_code |-> <<"ATL">>, latitude_deg |-> <<"deg">>,
        longitude_deg |-> <<"deg">>],
       [ident |-> "XATL", iata_code |-> <<"ATL">>, latitude_deg |-> NaN,
        longitude_deg |-> <<"deg">>],
       [ident |-> "KJFK", iata_code |-> <<"JFK">>, latitude_deg |-> <<"deg">>,
        longitude_deg |-> lon],
       [ident |-> "EGLL", iata_code |-> <<"LHR">>, latitude_deg |-> <<"deg">>,
        longitude_deg |-> <<"deg">>]>> : lon \in Coordinates}

\* What the lounge site may do with a request for a detail URL: serve it,
\* answer not found, redirect to the airport page, redirect to the country
\* page, redirect to the lounge's new detail page, or fail in transport.
Behaviours == {"ok", "not_found", "airport", "country", "moved", "raise"}

\* The behaviours the pipeline is run against.
PipelineBehaviours == {"ok", "not_found", "airport", "raise"}

AirportPage ==
    <<"https:", "/", "/", "my.prioritypass.com", "/", "en-GB", "/", "lounges", "/",
      "united-states", "/", "hartsfield", "?", "fromLounge=1">>

CountryPage ==
    <<"https:", "/", "/", "my.prioritypass.com", "/", "en-GB", "/", "lounges", "/",
      "united-states">>

MovedPage ==
    <<"https:", "/", "/", "my.prioritypass.com", "/", "en-GB", "/", "lounges", "/",
      "united-states", "/", "hartsfield", "/", "the-club">>

\* The response object of session.get(url) under a behaviour.
Answer(b, url) ==
    [raised |-> b = "raise",
     url |-> CASE b = "airport" -> AirportPage
               [] b = "country" -> CountryPage
               [] b = "moved" -> MovedPage
               [] OTHER -> url,
     status_code |-> IF b = "not_found" THEN 404 ELSE 200,
     text |-> IF b = "not_found" THEN <<"Page Not Found">> ELSE <<"Lounge">>,
     image |-> IF b \in {"ok", "moved"} THEN <<"lounge.jpg">> ELSE NoneVal,
     title |-> IF b = "not_found" THEN <<"Page Not Found">> ELSE <<"Lounge">>]

OutputFiles ==
    {"priority_pass_lounges.db", "priority_pass_airports.csv",
     "priority_pass_lounges_only.csv", "world_airports_with_priority_lounges.csv",
     "map_airports_with_lounges.csv", "metadata.json", "priority_pass_lounges_map.html"}

Init ==
    /\ UrlIdle
    /\ PageIdle
    /\ PoolIdle
    /\ pc = "start"
    /\ world_airports_df = <<>>
    /\ airport_links = <<>>
    /\ pending = {}
    /\ task = NoTask
    /\ airport_summaries = <<>>
    /\ lounge_items_all = <<>>
    /\ pp_lounges_df = <<>>
    /\ image_lookup = <<>>
    /\ recheck_lookup = <<>>
    /\ world_airports_enriched = <<>>
    /\ map_df = <<>>
    /\ files = {}

\* [1/8]: the reference dataset is downloaded and written out.
DownloadWorldAirports ==
    /\ pc = "start"
    /\ \E world \in Worlds : world_airports_df' = world
    /\ files' = files \cup {"world_airports.csv"}
    /\ pc' = "index"
    /\ UNCHANGED <<poolVars, urlVars, pageVars, airport_links, pending, task, airport_summaries,
                   lounge_items_all, pp_lounges_df, image_lookup, recheck_lookup,
                   world_airports_enriched, map_df>>

\* [1/8]: the download of the reference dataset raises and the run ends.
DownloadWorldAirportsRaises ==
    /\ pc = "start"
    /\ pc' = "fatal"
    /\ UNCHANGED <<poolVars, urlVars, pageVars, world_airports_df, airport_links, pending, task,
                   airport_summaries, lounge_items_all, pp_lounges_df, image_lookup,
                   recheck_lookup, world_airports_enriched, map_df, files>>

\* [2/8]: the index is fetched and its links submitted to the pool.
ScrapeIndex ==
    /\ pc = "index"
    /\ airport_links' = IndexLinks
    /\ pending' = Range(IndexLinks)
    /\ pc' = "airports"
    /\ UNCHANGED <<poolVars, urlVars, pageVars, world_airports_df, task, airport_summaries,
                   lounge_items_all, pp_lounges_df, image_lookup, recheck_lookup,
                   world_airports_enriched, map_df, files>>

\* [2/8]: fetch_text raises on the index and the run ends.
ScrapeIndexRaises ==
    /\ pc = "index"
    /\ pc' = "fatal"
    /\ UNCHANGED <<poolVars, urlVars, pageVars, world_airports_df, airport_links, pending, task,
                   airport_summaries, lounge_items_all, pp_lounges_df, image_lookup,
                   recheck_lookup, world_airports_enriched, map_df, files>>

\* [3/8]: one airport-page task completes with a page and is collected.
AirportTaskReturns ==
    /\ pc = "airports"
    /\ \E url \in pending : \E pg \in PagesOf(url) :
          LET result == parse_airport_page(pg)
          IN  /\ pending' = pending \ {url}
              /\ airport_summaries' =
                     Append(airport_summaries,
                            [airport_url |-> result.airport_url,
                             airport_slug |-> result.airport_slug,
                             country_slug |-> result.country_slug,
                             lounge_count |-> result.lounge_count,
                             non_lounge_count |-> result.non_lounge_count,
                             all_experience_count |-> result.all_experience_count,
                             error |-> FALSE])
              /\ lounge_items_all' = lounge_items_all \o result.lounge_items
    /\ UNCHANGED <<poolVars, urlVars, pageVars, pc, world_airports_df, airport_links, task,
                   pp_lounges_df, image_lookup, recheck_lookup,
                   world_airports_enriched, map_df, files>>

\* AirportTaskRaises, had the failure of one page lost the items collected
\* before it.
AirportTaskRaisesLosesItems ==
    /\ pc = "airports"
    /\ \E url \in pending :
          /\ pending' = pending \ {url}
          /\ airport_summaries' =
                 Append(airport_summaries,
                        [airport_url |-> url, airport_slug |-> <<>>,
                         country_slug |-> <<>>, lounge_count |-> 0,
                         non_lounge_count |-> 0, all_experience_count |-> 0,
                         error |-> TRUE])
    /\ lounge_items_all' = <<>>
    /\ UNCHANGED <<poolVars, urlVars, pageVars, pc, world_airports_df, airport_links, task,
                   pp_lounges_df, image_lookup, recheck_lookup,
                   world_airports_enriched, map_df, files>>

\* [3/8]: one airport-page task raises and a placeholder is collected.
AirportTaskRaises ==
    /\ pc = "airports"
    /\ \E url \in pending :
          /\ pending' = pending \ {url}
          /\ airport_summaries' =
                 Append(airport_summaries,
                        [airport_url |-> url, airport_slug |-> <<>>,
                         country_slug |-> <<>>, lounge_count |-> 0,
                         non_lounge_count |-> 0, all_experience_count |-> 0,
                         error |-> TRUE])
    /\ UNCHANGED <<poolVars, urlVars, pageVars, pc, world_airports_df, airport_links, task,
                   lounge_items_all, pp_lounges_df, image_lookup, recheck_lookup,
                   world_airports_enriched, map_df, files>>

\* No lounge record was found: RuntimeError.
NoLoungeRecords ==
    /\ pc = "airports"
    /\ pending = {}
    /\ lounge_items_all = <<>>
    /\ pc' = "fatal"
    /\ UNCHANGED <<poolVars, urlVars, pageVars, world_airports_df, airport_links, pending, task,
                   airport_summaries, lounge_items_all, pp_lounges_df, image_lookup,
                   recheck_lookup, world_airports_enriched, map_df, files>>

\* The lounge records are framed and their URLs submitted to the pool.
BuildLoungeFrame ==
    /\ pc = "airports"
    /\ pending = {}
    /\ lounge_items_all # <<>>
    /\ pp_lounges_df' = LoungeFrame(lounge_items_all)
    /\ pending' = {r.experience_detail_url : r \in Range(pp_lounges_df')}
    /\ pc' = "images"
    /\ UNCHANGED <<poolVars, urlVars, pageVars, world_airports_df, airport_links, task,
                   airport_summaries, lounge_items_all, image_lookup, recheck_lookup,
                   world_airports_enriched, map_df, files>>

\* What a task of either pool leaves alone.
TaskFrame ==
    UNCHANGED <<poolVars, urlVars, pageVars, pc, world_airports_df, airport_links,
                airport_summaries, lounge_items_all, pp_lounges_df, image_lookup,
                recheck_lookup, world_airports_enriched, map_df, files>>

\* A worker takes fetch_lounge_image(u) up.
StartImage ==
    /\ task = NoTask
    /\ \E u \in pending :
          /\ is_lounge_detail_url(u)
          /\ task' = NewTask("image", u)
          /\ pending' = pending \ {u}

\* The site answers the request of fetch_lounge_image with a behaviour of B.
StepImage(B) ==
    /\ task.kind = "image"
    /\ task.pc # "done"
    /\ \E b \in B : task' = fetch_lounge_image(task, Answer(b, RequestUrl(task)))
    /\ UNCHANGED pending

\* A worker takes recheck_and_fix(url) up; a URL that is no detail URL is
\* answered "" before any request.
StartRecheck ==
    /\ task = NoTask
    /\ \E u \in pending :
          /\ task' = IF is_lounge_detail_url(u) THEN NewTask("recheck", u)
                     ELSE RecheckNotOk(NewTask("recheck", u), "Discarded")
          /\ pending' = pending \ {u}

\* The site answers the request of recheck_and_fix with a behaviour of B.
StepRecheck(B) ==
    /\ task.kind = "recheck"
    /\ task.pc # "done"
    /\ \E b \in B : task' = recheck_and_fix(task, Answer(b, RequestUrl(task)))
    /\ UNCHANGED pending

\* [4/8]: a task of the lounge-detail pool starts.
ImageTaskStart == pc = "images" /\ StartImage /\ TaskFrame

\* [4/8]: a task of the lounge-detail pool gets an answer.
ImageTaskStep == pc = "images" /\ StepImage(PipelineBehaviours) /\ TaskFrame

\* [4/8]: image_lookup[lounge_url] = fut.result()
ImageTaskCollect ==
    /\ pc = "images"
    /\ task.kind = "image"
    /\ task.pc = "done"
    /\ image_lookup' = image_lookup @@
                           (task.source :> [result |-> task.result,
                                            verdict |-> task.verdict])
    /\ task' = NoTask
    /\ UNCHANGED <<poolVars, urlVars, pageVars, pc, world_airports_df, airport_links, pending,
                   airport_summaries, lounge_items_all, pp_lounges_df, recheck_lookup,
                   world_airports_enriched, map_df, files>>

\* [5/8]: images and resolved URLs are applied, the airports are joined, and
\* the URLs of the map pins are submitted to the pool.
JoinAirports ==
    /\ pc = "images"
    /\ pending = {}
    /\ task = NoTask
    /\ pp_lounges_df' = ApplyImageLookup(pp_lounges_df, image_lookup)
    /\ world_airports_enriched' = Enriched(world_airports_df, pp_lounges_df')
    /\ map_df' = MapPins(world_airports_enriched')
    /\ pending' = UniqueMapUrls(pp_lounges_df', map_df')
    /\ pc' = "recheck"
    /\ UNCHANGED <<poolVars, urlVars, pageVars, world_airports_df, airport_links, task,
                   airport_summaries, lounge_items_all, image_lookup, recheck_lookup,
                   files>>

\* [6/8]: a task of the recheck pool starts.
RecheckTaskStart == pc = "recheck" /\ StartRecheck /\ TaskFrame

\* [6/8]: a task of the recheck pool gets an answer.
RecheckTaskStep == pc = "recheck" /\ StepRecheck(PipelineBehaviours) /\ TaskFrame

\* [6/8]: recheck_lookup[source_url] = fut.result()
RecheckTaskCollect ==
    /\ pc = "recheck"
    /\ task.kind = "recheck"
    /\ task.pc = "done"
    /\ recheck_lookup' = recheck_lookup @@
                             (task.source :> [result |-> task.result,
                                              verdict |-> task.verdict])
    /\ task' = NoTask
    /\ UNCHANGED <<poolVars, urlVars, pageVars, pc, world_airports_df, airport_links, pending,
                   airport_summaries, lounge_items_all, pp_lounges_df, image_lookup,
                   world_airports_enriched, map_df, files>>

\* [6/8]-[8/8]: the recheck results are applied, the airports are joined
\* again, and the database, the exports and the map are written.
RejoinAndSave ==
    /\ pc = "recheck"
    /\ pending = {}
    /\ task = NoTask
    /\ pp_lounges_df' = ApplyRecheckLookup(pp_lounges_df, recheck_lookup)
    /\ world_airports_enriched' = Enriched(world_airports_df, pp_lounges_df')
    /\ map_df' = MapPins(world_airports_enriched')
    /\ files' = files \cup OutputFiles
    /\ pc' = "done"
    /\ UNCHANGED <<poolVars, urlVars, pageVars, world_airports_df, airport_links, pending, task,
                   airport_summaries, lounge_items_all, image_lookup, recheck_lookup>>

Next ==
    \/ DownloadWorldAirports
    \/ DownloadWorldAirportsRaises
    \/ ScrapeIndex
    \/ ScrapeIndexRaises
    \/ AirportTaskReturns
    \/ AirportTaskRaises
    \/ NoLoungeRecords
    \/ BuildLoungeFrame
    \/ ImageTaskStart
    \/ ImageTaskStep
    \/ ImageTaskCollect
    \/ JoinAirports
    \/ RecheckTaskStart
    \/ RecheckTaskStep
    \/ RecheckTaskCollect
    \/ RejoinAndSave

Spec == Init /\ [][Next]_vars

----------------------------------------------------------------------------
(* One URL through either ladder against every answer of the site *)

\* The URLs handed to a ladder: a detail URL that names its airport twice,
\* a detail URL that does not, and (to the recheck ladder, which is handed
\* what the image pass resolved) an airport page.
LadderUrls ==
    {<<"https:", "/", "/", "my.prioritypass.com", "/", "en-GB", "/", "lounges", "/",
       "usa", "/", "atl", "/", "atl", "/", "atl-club">>,
     <<"https:", "/", "/", "my.prioritypass.com", "/", "en-GB", "/", "lounges", "/",
       "usa", "/", "jfk", "/", "jfk-sky">>,
     AirportPage}

InitLadder ==
    /\ UrlIdle
    /\ PageIdle
    /\ PoolIdle
    /\ pc = "off"
    /\ world_airports_df = <<>>
    /\ airport_links = <<>>
    /\ pending \in {{u} : u \in LadderUrls}
    /\ task = NoTask
    /\ airport_summaries = <<>>
    /\ lounge_items_all = <<>>
    /\ pp_lounges_df = <<>>
    /\ image_lookup = <<>>
    /\ recheck_lookup = <<>>
    /\ world_airports_enriched = <<>>
    /\ map_df = <<>>
    /\ files = {}

LadderImageStart == pc = "off" /\ StartImage /\ TaskFrame

LadderImageStep == pc = "off" /\ StepImage(Behaviours) /\ TaskFrame

LadderRecheckStart == pc = "off" /\ StartRecheck /\ TaskFrame

LadderRecheckStep == pc = "off" /\ StepRecheck(Behaviours) /\ TaskFrame

NextLadder ==
    \/ LadderImageStart
    \/ LadderImageStep
    \/ LadderRecheckStart
    \/ LadderRecheckStep

SpecLadder == InitLadder /\ [][NextLadder]_vars

\* recheck_and_fix is at a request: the state in which LadderRecheckStep is
\* enabled.
RecheckRunning == pc = "off" /\ task.kind = "recheck" /\ task.pc # "done"

\* Every request of recheck_and_fix carries a timeout (check_url_ok, line
\* 138): the site answers it or the request raises, and the task goes on.
\* This is WF_vars(LadderRecheckStep) with ENABLED written out as
\* RecheckRunning.
FairLadder ==
    SpecLadder /\ ([]<>(~RecheckRunning) \/ []<><<LadderRecheckStep>>_vars)

----------------------------------------------------------------------------
(* One pool of concurrent tasks on the session they are all handed *)

\* max_workers of the pool.
Workers == 2

PoolPhases == {"airports", "images", "recheck"}

\* What the site may do with a request of a pool task.
PoolBehaviours == {"ok", "not_found", "raise"}

\* The URLs submitted to the pool of a phase.
PoolUrls(phase) ==
    IF phase = "airports" THEN Range(IndexLinks)
    ELSE {u \in LadderUrls : is_lounge_detail_url(u)}

\* ex.submit(fn, url, session): the future of a task no worker has taken up.
\* sent is the cookies the task's last request carried; wrote (the shared
\* objects the task has written) and beside (the tasks that were running
\* when it wrote one) are not read by the code.
NewFuture ==
    [state |-> "queued", task |-> NoTask, sent |-> <<>>, wrote |-> {}, beside |-> {}]

\* The tasks a worker is running.
InFlight == {u \in DOMAIN futures : futures[u].state \in {"running", "waiting"}}

InitPool ==
    /\ UrlIdle
    /\ PageIdle
    /\ pc \in PoolPhases
    /\ session = NoSession
    /\ futures = [u \in PoolUrls(pc) |-> NewFuture]
    /\ world_airports_df = <<>>
    /\ airport_links = IF pc = "airports" THEN IndexLinks ELSE <<>>
    /\ pending = {}
    /\ task = NoTask
    /\ airport_summaries = <<>>
    /\ lounge_items_all = <<>>
    /\ pp_lounges_df = <<>>
    /\ image_lookup = <<>>
    /\ recheck_lookup = <<>>
    /\ world_airports_enriched = <<>>
    /\ map_df = <<>>
    /\ files = {}

\* What a step of a worker leaves alone.
WorkerFrame ==
    UNCHANGED <<urlVars, pageVars, pc, world_airports_df, airport_links, pending, task,
                airport_summaries, lounge_items_all, pp_lounges_df, image_lookup,
                recheck_lookup, world_airports_enriched, map_df, files>>

TaskKind(phase) ==
    CASE phase = "airports" -> "airport"
      [] phase = "images" -> "image"
      [] OTHER -> "recheck"

\* A free worker takes a queued task up.
WorkerTakes ==
    /\ pc \in PoolPhases
    /\ Cardinality(InFlight) < Workers
    /\ \E u \in DOMAIN futures :
          /\ futures[u].state = "queued"
          /\ futures' = [futures EXCEPT ![u].state = "running",
                                        ![u].task = NewTask(TaskKind(pc), u)]
    /\ UNCHANGED session
    /\ WorkerFrame

\* session.get(url): the request is prepared with the cookies the session
\* holds and sent.
SessionSend ==
    /\ pc \in PoolPhases
    /\ \E u \in DOMAIN futures :
          /\ futures[u].state = "running"
          /\ futures' = [futures EXCEPT ![u].state = "waiting",
                                        ![u].sent = session.cookies]
    /\ UNCHANGED session
    /\ WorkerFrame

\* The future of a task after the answer to its request took it to t; the
\* session stored a cookie of the answer or not, the tasks of others running.
Received(f, t, cookie, others) ==
    [f EXCEPT !.task = t,
              !.state = IF t.pc = "done" THEN "finished" ELSE "running",
              !.wrote = IF cookie THEN @ \cup {"session"} ELSE @,
              !.beside = IF cookie THEN @ \cup others ELSE @]

\* session.get(url) returns or raises: a cookie the answer sets is stored in
\* the session (the last one stored wins), and the task runs on to its next
\* request or to its end.
SessionStores(u, b, cookie) ==
    /\ cookie => b # "raise"
    /\ session' = IF cookie THEN [cookies |-> u] ELSE session

\* parse_airport_page: fetch_text raises on a failed request or an error
\* status; else the page is parsed.
AirportFailed(t) == [t EXCEPT !.pc = "done", !.verdict = "Error"]

AirportParsed(t, result) == [t EXCEPT !.pc = "done", !.verdict = "Valid", !.result = result]

AirportReceives ==
    /\ pc = "airports"
    /\ \E u \in DOMAIN futures : \E b \in PoolBehaviours : \E cookie \in BOOLEAN :
          /\ futures[u].state = "waiting"
          /\ SessionStores(u, b, cookie)
          /\ \/ /\ b # "ok"
                /\ futures' = [futures EXCEPT
                                  ![u] = Received(@, AirportFailed(futures[u].task), cookie,
                                                  InFlight \ {u})]
             \/ /\ b = "ok"
                /\ \E pg \in PagesOf(u) :
                      futures' = [futures EXCEPT
                                     ![u] = Received(@, AirportParsed(futures[u].task,
                                                                      parse_airport_page(pg)),
                                                     cookie, InFlight \ {u})]
    /\ WorkerFrame

ImageReceives ==
    /\ pc = "images"
    /\ \E u \in DOMAIN futures : \E b \in PoolBehaviours : \E cookie \in BOOLEAN :
          /\ futures[u].state = "waiting"
          /\ SessionStores(u, b, cookie)
          /\ futures' = [futures EXCEPT
                            ![u] = Received(@, fetch_lounge_image(
                                                   futures[u].task,
                                                   Answer(b, RequestUrl(futures[u].task))),
                                            cookie, InFlight \ {u})]
    /\ WorkerFrame

RecheckReceives ==
    /\ pc = "recheck"
    /\ \E u \in DOMAIN futures : \E b \in PoolBehaviours : \E cookie \in BOOLEAN :
          /\ futures[u].state = "waiting"
          /\ SessionStores(u, b, cookie)
          /\ futures' = [futures EXCEPT
                            ![u] = Received(@, recheck_and_fix(
                                                   futures[u].task,
                                                   Answer(b, RequestUrl(futures[u].task))),
                                            cookie, InFlight \ {u})]
    /\ WorkerFrame

\* What the orchestrating thread leaves alone when it collects a future.
CollectFrame ==
    UNCHANGED <<urlVars, pageVars, session, pc, world_airports_df, airport_links,
                pending, task, pp_lounges_df, world_airports_enriched, map_df, files>>

\* for fut in as_completed(futures): the summary of the page, or the
\* placeholder, is appended and the lounge items are merged.
CollectAirport ==
    /\ pc = "airports"
    /\ \E u \in DOMAIN futures :
          /\ futures[u].state = "finished"
          /\ futures' = [futures EXCEPT ![u].state = "collected"]
          /\ IF futures[u].task.verdict = "Valid"
             THEN /\ airport_summaries' =
                         Append(airport_summaries,
                                [airport_url |-> futures[u].task.result.airport_url,
                                 airport_slug |-> futures[u].task.result.airport_slug,
                                 country_slug |-> futures[u].task.result.country_slug,
                                 lounge_count |-> futures[u].task.result.lounge_count,
                                 non_lounge_count |->
                                     futures[u].task.result.non_lounge_count,
                                 all_experience_count |->
                                     futures[u].task.result.all_experience_count,
                                 error |-> FALSE])
                  /\ lounge_items_all' =
                         lounge_items_all \o futures[u].task.result.lounge_items
             ELSE /\ airport_summaries' =
                         Append(airport_summaries,
                                [airport_url |-> u, airport_slug |-> <<>>,
                                 country_slug |-> <<>>, lounge_count |-> 0,
                                 non_lounge_count |-> 0, all_experience_count |-> 0,
                                 error |-> TRUE])
                  /\ UNCHANGED lounge_items_all
    /\ UNCHANGED <<image_lookup, recheck_lookup>>
    /\ CollectFrame

\* image_lookup[lounge_url] = fut.result()
CollectImage ==
    /\ pc = "images"
    /\ \E u \in DOMAIN futures :
          /\ futures[u].state = "finished"
          /\ futures' = [futures EXCEPT ![u].state = "collected"]
          /\ image_lookup' = image_lookup @@
                                 (u :> [result |-> futures[u].task.result,
                                        verdict |-> futures[u].task.verdict])
    /\ UNCHANGED <<airport_summaries, lounge_items_all, recheck_lookup>>
    /\ CollectFrame

\* recheck_lookup[source_url] = fut.result()
CollectRecheck ==
    /\ pc = "recheck"
    /\ \E u \in DOMAIN futures :
          /\ futures[u].state = "finished"
          /\ futures' = [futures EXCEPT ![u].state = "collected"]
          /\ recheck_lookup' = recheck_lookup @@
                                   (u :> [result |-> futures[u].task.result,
                                          verdict |-> futures[u].task.verdict])
    /\ UNCHANGED <<airport_summaries, lounge_items_all, image_lookup>>
    /\ CollectFrame

NextPool ==
    \/ WorkerTakes
    \/ SessionSend
    \/ AirportReceives
    \/ ImageReceives
    \/ RecheckReceives
    \/ CollectAirport
    \/ CollectImage
    \/ CollectRecheck

SpecPool == InitPool /\ [][NextPool]_vars

----------------------------------------------------------------------------
(* Claims about the URL functions, stated on the shape of the input *)

IsLang(w) == w \in {"en-GB", "EN-gb"}

\* The segments are those of a detail page: lang/lounges/c/a/slug... or
\* lounges/c/a/slug...
SegsAreDetail(segs) ==
    \/ Len(segs) >= 5 /\ IsLang(segs[1]) /\ segs[2] = "lounges"
    \/ Len(segs) >= 4 /\ segs[1] = "lounges"

\* The segments of a string, each a word.
WordsOf(url) ==
    LET parts == PathParts(urlparse(url).path)
    IN  [i \in 1..Len(parts) |-> IF Len(parts[i]) = 1 THEN parts[i][1] ELSE "?"]

CanonicalUrl(segs) ==
    <<"https:", "/", "/", "my.prioritypass.com", "/">>
        \o Join([i \in 1..Len(segs) |-> <<segs[i]>>])

\* C1: canonicalization is idempotent: canonicalizing the result of a
\* canonicalization returns it unchanged, for every accepted input.
C1_Idempotent ==
    (call.fn = "to_my_prioritypass_url" /\ call.n >= 2) => call.ret = call.arg

\* C2: is_lounge_detail_url is true exactly when the non-empty path
\* segments are (a) at least 5, led by the language code and the listing
\* keyword, or (b) at least 4, led by the listing keyword.
C2_DetailExactly ==
    call.fn = "is_lounge_detail_url" => (call.ok <=> SegsAreDetail(shape.segs))

C2_Witness ==
    /\ call.fn = "is_lounge_detail_url"
    /\ call.ok
    /\ Len(shape.segs) = 5
    /\ shape.segs[1] = "en-GB"
    /\ shape.query

\* The index of the segment the repair removes, 0 when the path does not
\* match the duplicated-airport pattern.
RepairIndex(segs) ==
    IF Len(segs) >= 6 /\ IsLang(segs[1]) /\ segs[2] = "lounges" THEN 4
    ELSE IF Len(segs) >= 5 /\ segs[1] = "lounges" THEN 3
    ELSE 0

Without(segs, k) == SubSeq(segs, 1, k - 1) \o SubSeq(segs, k + 1, Len(segs))

\* C3: repair_duplicated_airport_segment returns its input unchanged below
\* the trigger count (5 unprefixed, 6 prefixed) or off the listing prefix,
\* and on a matching path removes exactly the segment after the country
\* segment, the other segments keeping their order.
C3_RepairRemovesOne ==
    call.fn = "repair_duplicated_airport_segment" =>
        IF RepairIndex(shape.segs) = 0
        THEN call.ret = raw
        ELSE WordsOf(call.ret) = Without(shape.segs, RepairIndex(shape.segs))

C3_Witness ==
    /\ call.fn = "repair_duplicated_airport_segment"
    /\ shape.segs = <<"en-GB", "lounges", "usa", "atl", "usa", "atl">>
    /\ WordsOf(call.ret) = <<"en-GB", "lounges", "usa", "usa", "atl">>

RedirIsAirport(r) == Len(r) = 4 /\ IsLang(r[1]) /\ r[2] = "lounges"

RedirIsCountry(r) == Len(r) = 3 /\ IsLang(r[1]) /\ r[2] = "lounges"

\* C4: for every original classified as a detail URL, a redirect to an
\* airport page recovers lang/lounges/<redirected country>/<redirected
\* airport>/<last segment of original>, and a redirect to a country page
\* recovers lang/lounges/<redirected country>/<original airport>/<last
\* segment of original>.
C4_RecoverFromCoarserPage ==
    (call.fn = "try_recover_detail_url_from_redirect" /\ SegsAreDetail(shape.segs)) =>
        LET o == shape.segs
            r == call.rshape
        IN  /\ RedirIsAirport(r) =>
                  call.ret = CanonicalUrl(<<"en-GB", "lounges", r[3], r[4], o[Len(o)]>>)
            /\ RedirIsCountry(r) =>
                  call.ret = CanonicalUrl(<<"en-GB", "lounges", r[3], o[Len(o) - 1],
                                            o[Len(o)]>>)

\* C5: try_recover_detail_url_from_redirect returns none whenever the
\* redirect target is neither an airport page nor a country page.
C5_NoneOffCoarserPage ==
    (/\ call.fn = "try_recover_detail_url_from_redirect"
     /\ ~RedirIsAirport(call.rshape)
     /\ ~RedirIsCountry(call.rshape)) => call.ret = NoneVal

----------------------------------------------------------------------------
(* Claims about the liveness probe *)

\* The body's opening segment, marker by marker.
HeadHas(text, marker) ==
    \E i \in 1..Len(text) : i <= HeadTokens /\ LowerTok(text[i]) = marker

\* C6 as stated, for a probe that was answered: ok exactly when the final
\* URL is a detail page, the status is below 400 and the opening segment
\* does not match a not-found marker ("page not found" or "404") without
\* also holding a lounge marker.
C6_OkExactly ==
    (call.fn = "check_url_ok" /\ SegsAreDetail(shape.segs)) =>
        (call.ok <=>
            /\ SegsAreDetail(call.rshape)
            /\ call.status < 400
            /\ ~(/\ HeadHas(call.text, "page not found") \/ HeadHas(call.text, "404")
                 /\ ~HeadHas(call.text, "lounge")))

\* C6 amended: a URL that is not itself a detail URL is answered not-ok
\* with no request; for a detail URL, ok exactly when the final URL is a
\* detail page, the status is below 400, the opening segment does not hold
\* "page not found", and it does not hold "404" without a lounge marker.
C6_OkExactlyAmended ==
    call.fn = "check_url_ok" =>
        IF ~SegsAreDetail(shape.segs)
        THEN ~call.ok /\ call.ret = raw
        ELSE /\ call.ret = call.arg2
             /\ call.ok <=>
                    /\ SegsAreDetail(call.rshape)
                    /\ call.status < 400
                    /\ ~HeadHas(call.text, "page not found")
                    /\ ~(HeadHas(call.text, "404") /\ ~HeadHas(call.text, "lounge"))

\* A page that echoes "404" beside a lounge marker is accepted.
C6_Witness ==
    /\ call.fn = "check_url_ok"
    /\ call.ok
    /\ call.status = 399
    /\ HeadHas(call.text, "404")
    /\ HeadHas(call.text, "lounge")

----------------------------------------------------------------------------
(* Claims about the page extractor *)

KeysOf(items) == {Key(items[i]) : i \in 1..Len(items)}

\* The first record of key k in items.
FirstOf(items, k) ==
    items[CHOOSE i \in 1..Len(items) :
              /\ Key(items[i]) = k
              /\ \A j \in 1..(i - 1) : Key(items[j]) # k]

\* out holds exactly one record per key of either pass, that record being
\* the first of its key with the anchor items ahead of the payload items.
MergedFirstWins(out, anchor_items, embedded_items) ==
    LET found == anchor_items \o embedded_items
    IN  /\ KeysOf(out) = KeysOf(found)
        /\ \A i, j \in 1..Len(out) : Key(out[i]) = Key(out[j]) => i = j
        /\ \A i \in 1..Len(out) : out[i] = FirstOf(found, Key(out[i]))

\* C9: after the merge of the two passes each output list holds exactly
\* one record per distinct (experience_type, experience_detail_slug) key
\* found by either pass, the first occurrence with anchor items ahead of
\* payload items; deduplicating the result again changes nothing.
C9_MergeFirstWins ==
    page_result # NotParsed =>
        /\ MergedFirstWins(page_result.lounge_items, Lounges(page_result.anchor_items),
                           Lounges(page_result.embedded_items))
        /\ MergedFirstWins(page_result.non_lounge_items, NonLounges(page_result.anchor_items),
                           NonLounges(page_result.embedded_items))
        /\ dedupe(page_result.lounge_items) = page_result.lounge_items
        /\ dedupe(page_result.non_lounge_items) = page_result.non_lounge_items
        /\ page_result.lounge_count = Cardinality(KeysOf(Lounges(page_result.anchor_items))
                                                \cup KeysOf(Lounges(page_result.embedded_items)))

\* Two anchor LOUNGE items and one more LOUNGE item that only the payload
\* holds, beside a payload copy of an anchor item: three LOUNGE records,
\* the anchor's record standing for the shared key.
C9_Witness ==
    /\ page_result # NotParsed
    /\ Len(Lounges(page_result.anchor_items)) = 2
    /\ Len(page.payload) = 2
    /\ Len(Lounges(page_result.embedded_items)) = 2
    /\ page_result.lounge_count = 3
    /\ \E i \in 1..3 : /\ page_result.lounge_items[i].experience_detail_slug = <<"atl-club">>
                        /\ page_result.lounge_items[i].experience_name = <<"The Club">>

----------------------------------------------------------------------------
(* Claims about the validation / recheck ladder *)

AnyOk(probes) == \E i \in 1..Len(probes) : probes[i].ok

\* The probes of a task follow the ladder: the URL itself; then, each only
\* after every earlier probe failed, the URL recovered from the first
\* probe's final URL, the repaired URL, and the URL recovered from the
\* repaired probe's final URL.
ProbeOrder(t) ==
    LET P == t.probes
        url == t.source
        recovered == try_recover_detail_url_from_redirect(url, P[1].resolved)
        repaired == repair_duplicated_airport_segment(url)
    IN  /\ Len(P) <= 4
        /\ \A i \in 1..(Len(P) - 1) : ~P[i].ok
        /\ Len(P) >= 1 => P[1].url = url
        /\ \A i \in 2..Len(P) :
              \/ i = 2 /\ recovered # NoneVal /\ P[i].url = recovered
              \/ /\ P[i].url = repaired
                 /\ repaired # url
                 /\ i = (IF recovered # NoneVal THEN 3 ELSE 2)
              \/ /\ P[i - 1].url = repaired
                 /\ i = (IF recovered # NoneVal THEN 4 ELSE 3)
                 /\ P[i].url = try_recover_detail_url_from_redirect(
                                   repaired, P[i - 1].resolved)
                 /\ P[i].url # NoneVal

\* The ladder of the task has been left (and not by an exception).
LadderLeft(t) == t.pc \in {"get", "done"} /\ t.verdict # "Error"

\* The URL the ladder settled on: resolved_url on leaving the ladder of
\* fetch_lounge_image, the string recheck_and_fix returns.
LadderUrl(t) ==
    IF t.kind = "image"
    THEN (IF t.pc = "done" /\ t.verdict = "Discarded"
          THEN t.result.resolved_detail_url ELSE t.resolved_url)
    ELSE t.result

\* C7: in both passes the probes follow the ladder's order, a later probe
\* being issued only if every earlier one failed; the result is the
\* resolved URL of the first probe that is ok, and the URL is discarded
\* (the result carries no URL) if no probe is ok.
C7_LadderContract ==
    /\ task.kind # "none" => ProbeOrder(task)
    /\ (LadderLeft(task) /\ (task.kind = "image" \/ task.pc = "done")) =>
           IF AnyOk(task.probes)
           THEN LadderUrl(task) = task.probes[Len(task.probes)].resolved
           ELSE LadderUrl(task) \in {NoneVal, <<>>}

----------------------------------------------------------------------------
(* Claims about the pipeline *)

\* C8: a record whose ladder was exhausted in a validation pass
\* (Discarded) is dropped: it is not among the records of a later
\* aggregation, and no URL derived from it is handed to a later pass.
C8_DiscardedDropped ==
    /\ pc \in {"recheck", "done"} =>
           \A r \in Range(pp_lounges_df) : r.state # "Discarded"
    /\ task.kind = "recheck" =>
           \A r \in Range(pp_lounges_df) :
               r.experience_detail_url = task.source => r.state # "Discarded"

\* The number of lounge records of an IATA code.
RecordsOf(iata) ==
    Cardinality({j \in 1..Len(pp_lounges_df) : pp_lounges_df[j].iata_code = iata})

OnMap(ident) == \E k \in 1..Len(map_df) : map_df[k].ident = ident

\* C10: after either aggregation an airport of the reference dataset is in
\* the map dataset if and only if it has at least one lounge record and
\* both its latitude and its longitude are present.
C10_MapIffLoungesAndCoordinates ==
    pc \in {"recheck", "done"} =>
        /\ \A i \in 1..Len(world_airports_df) :
              LET a == world_airports_df[i]
              IN  OnMap(a.ident) <=> /\ RecordsOf(a.iata_code) > 0
                                     /\ a.latitude_deg # NaN
                                     /\ a.longitude_deg # NaN
        /\ \A k \in 1..Len(map_df) :
              /\ \E i \in 1..Len(world_airports_df) :
                    /\ world_airports_df[i].ident = map_df[k].ident
                    /\ world_airports_df[i].latitude_deg = map_df[k].latitude_deg
                    /\ world_airports_df[i].longitude_deg = map_df[k].longitude_deg
              /\ map_df[k].lounge_count = <<RecordsOf(map_df[k].iata_code)>>

\* The final map holds Atlanta; the Atlanta row without a latitude is left
\* out with its lounge, and Heathrow is left out with its coordinates.
C10_Witness ==
    /\ pc = "done"
    /\ OnMap("KATL")
    /\ RecordsOf(<<"ATL">>) > 0
    /\ ~OnMap("XATL")
    /\ ~OnMap("EGLL")
    /\ RecordsOf(<<"LHR">>) = 0

----------------------------------------------------------------------------
(* The run as a whole *)

\* Every airport link has its summary: the airport pool has drained.
Extracted ==
    /\ airport_links # <<>>
    /\ pending = {}
    /\ Len(airport_summaries) = Len(airport_links)

\* C11: a run that fetched the reference dataset and the index aborts if
\* and only if no lounge record survives the initial extraction (the LOUNGE
\* records with an IATA code and a detail URL, over all airport pages); it
\* aborts before any validation or aggregation step; no failure of a single
\* task aborts it.
C11_FatalIffNoLoungeRecords ==
    /\ pc = "fatal" /\ airport_links # <<>> =>
          /\ Extracted
          /\ LoungeFrame(lounge_items_all) = <<>>
    /\ pc = "fatal" =>
          /\ pp_lounges_df = <<>>
          /\ image_lookup = <<>>
          /\ recheck_lookup = <<>>
          /\ world_airports_enriched = <<>>
    /\ pc \in {"images", "recheck", "done"} => LoungeFrame(lounge_items_all) # <<>>

\* What parse_airport_page returns for the pages the site may serve for
\* each airport link.
PageOutcomes ==
    [url \in Range(IndexLinks) |-> {parse_airport_page(pg) : pg \in PagesOf(url)}]

\* The lounge items of the pages that may stand behind a summary.
ItemsBehind(summary) ==
    {result.lounge_items :
        result \in {r \in PageOutcomes[summary.airport_url] :
                       /\ r.lounge_count = summary.lounge_count
                       /\ r.non_lounge_count = summary.non_lounge_count}}

\* The collections the orchestrator may hold after the summaries: the items
\* of every task that returned, in the order of completion.
RECURSIVE MergedItems(_)
MergedItems(summaries) ==
    IF summaries = <<>> THEN {<<>>}
    ELSE IF Head(summaries).error THEN MergedItems(Tail(summaries))
    ELSE {first \o rest : first \in ItemsBehind(Head(summaries)),
                          rest \in MergedItems(Tail(summaries))}

SummariesOf(url) ==
    {k \in 1..Len(airport_summaries) : airport_summaries[k].airport_url = url}

\* C12: whichever airport-page tasks fail, the pool drains with exactly one
\* summary per airport link, a placeholder with zero counts for every task
\* that failed, and every lounge item of every task that succeeded is in the
\* merged collection.
C12_PartialFailureTolerated ==
    pc \in {"airports", "images", "recheck", "done"} =>
        /\ \A k \in 1..Len(airport_summaries) :
              /\ airport_summaries[k].airport_url \in Range(airport_links)
              /\ Cardinality(SummariesOf(airport_summaries[k].airport_url)) = 1
              /\ airport_summaries[k].error =>
                    /\ airport_summaries[k].lounge_count = 0
                    /\ airport_summaries[k].non_lounge_count = 0
                    /\ airport_summaries[k].all_experience_count = 0
        /\ pc = "airports" =>
              pending = {u \in Range(airport_links) : SummariesOf(u) = {}}
        /\ pc # "airports" =>
              \A u \in Range(airport_links) : Cardinality(SummariesOf(u)) = 1
        /\ lounge_items_all \in MergedItems(airport_summaries)

\* The Atlanta task failed before the New York task returned its two
\* lounges, and the run went on with both.
C12_Witness ==
    /\ pc = "images"
    /\ Len(airport_summaries) = 2
    /\ airport_summaries[1].error
    /\ airport_summaries[1].airport_url = ATL_URL
    /\ ~airport_summaries[2].error
    /\ airport_summaries[2].lounge_count = 2
    /\ Len(lounge_items_all) = 2

\* The verdicts of a ladder one of whose probes was ok.
Settled == {"Valid", "Recovered", "Repaired"}

\* url is the recheck result of a source URL whose ladder ended on a probe
\* that was ok.
Rechecked(url) ==
    \E u \in DOMAIN recheck_lookup :
        /\ recheck_lookup[u].result = url
        /\ recheck_lookup[u].verdict \in Settled

\* C13: in the final output every lounge record, and every lounge item of
\* every map pin, carries a URL that is the canonicalized resolved URL of a
\* recheck probe that was ok and that is classified as a detail URL; no pin
\* is left whose lounges were all invalidated by the recheck.
C13_FinalUrlsValidated ==
    /\ task.kind = "recheck" /\ task.pc = "done" =>
          IF task.verdict \in Settled
          THEN /\ task.probes # <<>>
               /\ task.probes[Len(task.probes)].ok
               /\ task.result =
                      to_my_prioritypass_url(task.probes[Len(task.probes)].resolved)
               /\ is_lounge_detail_url(task.result)
          ELSE task.result = <<>>
    /\ \A u \in DOMAIN recheck_lookup :
          IF recheck_lookup[u].verdict \in Settled
          THEN is_lounge_detail_url(recheck_lookup[u].result)
          ELSE recheck_lookup[u].result = <<>>
    /\ pc = "done" =>
          /\ \A i \in 1..Len(pp_lounges_df) :
                /\ Rechecked(pp_lounges_df[i].experience_detail_url)
                /\ is_lounge_detail_url(pp_lounges_df[i].experience_detail_url)
          /\ \A k \in 1..Len(map_df) :
                /\ map_df[k].lounge_items_json # <<>>
                /\ \A n \in 1..Len(map_df[k].lounge_items_json) :
                      LET item == map_df[k].lounge_items_json[n]
                      IN  /\ Rechecked(item.experience_detail_url)
                          /\ is_lounge_detail_url(item.experience_detail_url)
                          /\ \E i \in 1..Len(pp_lounges_df) :
                                /\ pp_lounges_df[i].iata_code = map_df[k].iata_code
                                /\ LoungeItem(pp_lounges_df[i]) = item

\* The final map holds Atlanta with its lounge on the repaired URL, and New
\* York, whose only lounge the recheck invalidated, is no pin although the
\* reference dataset has its coordinates.
C13_Witness ==
    /\ pc = "done"
    /\ OnMap("KATL")
    /\ \E i \in 1..Len(pp_lounges_df) : pp_lounges_df[i].state = "Repaired"
    /\ \E u \in DOMAIN recheck_lookup : recheck_lookup[u].result = <<>>
    /\ \E i \in 1..Len(world_airports_df) :
          /\ world_airports_df[i].ident = "KJFK"
          /\ world_airports_df[i].longitude_deg # NaN
    /\ ~OnMap("KJFK")
    /\ RecordsOf(<<"JFK">>) = 0

----------------------------------------------------------------------------
(* The repaired URL *)

\* C14: whenever repair_duplicated_airport_segment changes its input, the
\* URL it returns is a canonical URL: on the canonical host, with the
\* language prefix before the listing keyword, and a fixed point of
\* to_my_prioritypass_url.
C14_RepairedIsCanonical ==
    (call.fn = "repair_duplicated_airport_segment" /\ call.ret # call.arg) =>
        /\ urlparse(call.ret).netloc = MY_PP_HOST
        /\ Len(WordsOf(call.ret)) >= 2
        /\ IsLang(WordsOf(call.ret)[1])
        /\ WordsOf(call.ret)[2] = "lounges"
        /\ to_my_prioritypass_url(call.ret) = call.ret

----------------------------------------------------------------------------
(* The records between the passes *)

\* The last non-empty path segment of a URL, <<>> when it has none.
LastSegment(url) ==
    LET parts == PathParts(urlparse(url).path)
    IN  IF parts = <<>> THEN <<>> ELSE parts[Len(parts)]

\* C15: in every state of the pipeline (after extraction, after the rewrite
\* of the image pass, after the rewrite of the recheck) every record's
\* experience_detail_slug is the last path segment of its
\* experience_detail_url, whatever the redirect target.
C15_SlugIsLastSegment ==
    /\ \A i \in 1..Len(lounge_items_all) :
          lounge_items_all[i].experience_detail_slug =
              LastSegment(lounge_items_all[i].experience_detail_url)
    /\ \A i \in 1..Len(pp_lounges_df) :
          pp_lounges_df[i].experience_detail_slug =
              LastSegment(pp_lounges_df[i].experience_detail_url)

----------------------------------------------------------------------------
(* The tasks of one pool *)

Collected == {u \in DOMAIN futures : futures[u].state = "collected"}

\* C16: in each of the three fan-out phases no mutable object is written by
\* two concurrently running tasks: the result collections are written only
\* by the orchestrating thread as it collects finished tasks, and what the
\* running tasks share, the session they are handed included, is only read.
C16_SharedStateReadOnly ==
    /\ pc = "airports" => Len(airport_summaries) = Cardinality(Collected)
    /\ pc = "images" => DOMAIN image_lookup = Collected
    /\ pc = "recheck" => DOMAIN recheck_lookup = Collected
    /\ \A u \in DOMAIN futures : futures[u].beside = {}
    /\ \A u \in DOMAIN futures : \A v \in futures[u].beside :
          futures[u].wrote \cap futures[v].wrote = {}

----------------------------------------------------------------------------
(* The files of the run *)

\* C17: no file is written before the final aggregation has completed; a run
\* that aborts as pipeline-fatal leaves no output file written.
C17_NoWriteBeforeAggregation ==
    /\ files # {} => pc = "done"
    /\ pc = "fatal" => files = {}

----------------------------------------------------------------------------
(* The order of completion *)

\* The lounge items of each collected airport page, in the order of
\* completion.
RECURSIVE Blocks(_, _)
Blocks(summaries, items) ==
    IF summaries = <<>> THEN <<>>
    ELSE <<SubSeq(items, 1, Head(summaries).lounge_count)>>
             \o Blocks(Tail(summaries),
                       SubSeq(items, Head(summaries).lounge_count + 1, Len(items)))

RECURSIVE Flip(_)
Flip(blocks) == IF blocks = <<>> THEN <<>> ELSE Flip(Tail(blocks)) \o Head(blocks)

\* The records of the run had the airport-page tasks completed in the
\* opposite order, with the same task results.
OtherOrder ==
    LET items == Flip(Blocks(airport_summaries, lounge_items_all))
        imaged == ApplyImageLookup(LoungeFrame(items), image_lookup)
    IN  IF pc = "done" THEN ApplyRecheckLookup(imaged, recheck_lookup) ELSE imaged

\* C18: the aggregation does not depend on the order in which the tasks
\* complete: for the same task results either order gives every airport
\* code the same lounge_count, the same lounge_names and the same lounge
\* item list in lounge_items_json, and gives the same map pins.
C18_OrderIndependent ==
    pc \in {"recheck", "done"} =>
        /\ world_airports_enriched = Enriched(world_airports_df, OtherOrder)
        /\ map_df = MapPins(Enriched(world_airports_df, OtherOrder))

----------------------------------------------------------------------------
(* The counts of the aggregation *)

\* C19: for every airport code of either aggregation lounge_count is the
\* number of entries of the deduplicated (name, url, image) list of
\* lounge_items_json, also when one lounge was extracted from two airport
\* pages or two source URLs resolve to one validated URL.
C19_CountIsItemCount ==
    pc \in {"recheck", "done"} =>
        \A i \in 1..Len(world_airports_enriched) :
            world_airports_enriched[i].lounge_count # NaN =>
                world_airports_enriched[i].lounge_count[1] =
                    Len(world_airports_enriched[i].lounge_items_json)

----------------------------------------------------------------------------
(* The records the recheck removes *)

\* The lounge records as they stood before the recheck was applied.
BeforeRecheck == ApplyImageLookup(LoungeFrame(lounge_items_all), image_lookup)

\* The record is in the final export, on the URL its recheck returned.
Retained(r) ==
    /\ r.experience_detail_url \in DOMAIN recheck_lookup
    /\ \E j \in 1..Len(pp_lounges_df) :
          /\ pp_lounges_df[j].experience_name = r.experience_name
          /\ pp_lounges_df[j].iata_code = r.iata_code
          /\ pp_lounges_df[j].experience_detail_url =
                 recheck_lookup[r.experience_detail_url].result

\* C20: the recheck removes a record from the final export only if its URL
\* was rechecked and the ladder failed; a record is not removed because its
\* IATA code matches no reference airport or one without coordinates.
C20_RemovedOnlyOnFailedRecheck ==
    pc = "done" =>
        \A i \in 1..Len(BeforeRecheck) :
            \/ Retained(BeforeRecheck[i])
            \/ /\ BeforeRecheck[i].experience_detail_url \in DOMAIN recheck_lookup
               /\ recheck_lookup[BeforeRecheck[i].experience_detail_url].result = <<>>

----------------------------------------------------------------------------
(* The end of recheck_and_fix *)

\* The requests the task has made: the probes that were answered and the
\* one that raised.
Requests(t) == Len(t.probes) + (IF t.verdict = "Error" THEN 1 ELSE 0)

\* What recheck_and_fix may return: the discard marker, or a URL on the
\* canonical host with the language prefix that canonicalization leaves
\* as it is.
Terminal(result) ==
    \/ result = <<>>
    \/ /\ result # NoneVal
       /\ urlparse(result).netloc = MY_PP_HOST
       /\ Len(WordsOf(result)) >= 2
       /\ IsLang(WordsOf(result)[1])
       /\ WordsOf(result)[2] = "lounges"
       /\ to_my_prioritypass_url(result) = result

RecheckBounded ==
    task.kind = "recheck" =>
        /\ Requests(task) <= 4
        /\ task.pc = "done" => Terminal(task.result)
        /\ task.verdict = "Error" => task.pc = "done" /\ task.result = <<>>

\* C21: for every URL and every behaviour of the site on every probe,
\* recheck_and_fix ends after at most four probes with a canonical URL or
\* with the discard marker; an exception of a probe gives the discard
\* marker and does not leave the function.
C21_RecheckTerminates ==
    /\ []RecheckBounded
    /\ (task.kind = "recheck") ~> (task.kind = "recheck" /\ task.pc = "done")

\* The fourth probe raised after three probes were answered and failed, and
\* the task returned the discard marker.
C21_Witness ==
    /\ task.kind = "recheck"
    /\ task.pc = "done"
    /\ Len(task.probes) = 3
    /\ task.verdict = "Error"
    /\ task.result = <<>>

====
